---- MODULE Spec2Model ----
(***************************************************************************)
(* Control loop of epever.py: main -> reconnect_and_execute ->             *)
(* call_all_functions, with the re-entrant call of reconnect_and_execute   *)
(* made by call_all_functions when a read raises.                          *)
(*                                                                         *)
(* The call stack is explicit.  One element of `stack` is one invocation   *)
(* of reconnect_and_execute together with the call_all_functions pass it   *)
(* has started (if any).  Only the last element runs; the others are       *)
(* suspended inside the except handler of call_all_functions (line 132).   *)
(***************************************************************************)
EXTENDS Integers, Sequences, FiniteSets, TLC

\* ---- bounds of the model ----
CatalogLen == 2     \* entries of function_calls that are modelled
MaxLinks == 2       \* EpeverChargeController objects constructed in one run
MaxFails == 2       \* consecutive construction failures in one invocation
MaxTrace == 8       \* report events that are remembered

\* ---- parameters of the run ----
Ports == {"COM3", "COM9"}     \* devices serial.tools.list_ports may list
com_port == "COM9"            \* args.comport, fixed for the process lifetime

VARIABLES
    stack,            \* active reconnect_and_execute invocations, outermost first
    status,           \* "running", "done", "crashed", "interrupted"
    ports,            \* what comports() lists at present
    function_calls,   \* position -> TRUE iff the entry's func is truthy
    nlinks,           \* controllers constructed so far; they are numbered 1..nlinks
    failed,           \* controllers on which a read has raised
    trace,            \* what the log shows of connects and of the poll passes
    last,             \* the last step of the program
    gap               \* since the last construction attempt: "none", "fail", "slept"

vars == <<stack, status, ports, function_calls, nlinks, failed, trace, last, gap>>

Positions == 1..CatalogLen

\* A fresh invocation of reconnect_and_execute, at the top of `while True`.
\*   pc       "validate" (line 49), "connect" (line 52), "poll" (line 53, in
\*            call_all_functions), "sleep" (line 58)
\*   epever   the local of line 52: the number of the controller, 0 if unset
\*   idx      position of the pass in function_calls; CatalogLen + 1 when the
\*            for loop is exhausted; 0 outside a pass
\*   checked  the port was found listed by the check of the current iteration
\*   cfails   construction failures in a row in this invocation
\*   cycles   sleeps completed after those failures
NewFrame ==
    [pc |-> "validate", epever |-> 0, idx |-> 0, checked |-> FALSE,
     cfails |-> 0, cycles |-> 0]

Top == stack[Len(stack)]
Depth == Len(stack)
Running == status = "running" /\ stack # <<>>

SetTop(f) == [stack EXCEPT ![Len(stack)] = f]
Pop == SubSeq(stack, 1, Len(stack) - 1)

Event(ev, link, pos) == [ev |-> ev, link |-> link, pos |-> pos]
Log(e) == IF Len(trace) < MaxTrace THEN Append(trace, e) ELSE trace
Step(act, depth, link, pos) == [act |-> act, depth |-> depth, link |-> link, pos |-> pos]

\* validate_com_port with the membership test left out.
validate_com_port_unchecked(port, available) == TRUE

\* validate_com_port: TRUE iff it returns, FALSE iff it raises ValueError.
validate_com_port(port, available) == port \in available

\* Exit status of the process for each way it can end.
exit_code(s) ==
    CASE s = "done" -> 0
      [] s = "interrupted" -> 0
      [] s = "crashed" -> 1
      [] OTHER -> -1

Init ==
    /\ stack = <<NewFrame>>
    /\ status = "running"
    /\ ports \in SUBSET Ports
    /\ function_calls \in [Positions -> BOOLEAN]
    /\ nlinks = 0
    /\ failed = {}
    /\ trace = <<>>
    /\ last = Step("main", 0, 0, 0)
    /\ gap = "none"

\* The frame of an invocation whose try block has raised: the handler (lines
\* 55-58) has logged and is in time.sleep(5).  The pass, if any, is gone.
Handler(f) ==
    [f EXCEPT !.pc = "sleep", !.idx = 0]

\* Line 49, the port is listed: go on to the try block.
ValidateOk ==
    /\ Running
    /\ Top.pc = "validate"
    /\ validate_com_port(com_port, ports)
    /\ stack' = SetTop([Top EXCEPT !.pc = "connect", !.checked = com_port \in ports])
    /\ last' = Step("validate", Depth, 0, 0)
    /\ UNCHANGED <<status, ports, function_calls, nlinks, failed, trace, gap>>

\* ValidateFail with a handler at line 55 that catches serial errors only: the
\* ValueError is caught nowhere and ends the process at any depth.
ValidateFail_fatal ==
    /\ Running
    /\ Top.pc = "validate"
    /\ ~ validate_com_port(com_port, ports)
    /\ stack' = <<>>
    /\ status' = "crashed"
    /\ last' = Step("PortUnavailable", Depth, 0, 0)
    /\ UNCHANGED <<ports, function_calls, nlinks, failed, trace, gap>>

\* ValidateFail with the check moved inside the try block: the invocation that
\* made the check handles the error itself.
ValidateFail_retried ==
    /\ Running
    /\ Top.pc = "validate"
    /\ ~ validate_com_port(com_port, ports)
    /\ stack' = SetTop(Handler(Top))
    /\ last' = Step("PortUnavailable", Depth, 0, 0)
    /\ gap' = "fail"
    /\ UNCHANGED <<status, ports, function_calls, nlinks, failed, trace>>

\* Line 49, the port is not listed: ValueError leaves this invocation (the call
\* is outside its try).  With no caller but main the process dies; otherwise the
\* caller is call_all_functions at line 132, inside an except clause, so the
\* error leaves that pass too and is caught at line 55 of the invocation below.
ValidateFail ==
    /\ Running
    /\ Top.pc = "validate"
    /\ ~ validate_com_port(com_port, ports)
    /\ last' = Step("PortUnavailable", Depth, 0, 0)
    /\ IF Depth = 1
         THEN /\ stack' = <<>>
              /\ status' = "crashed"
              /\ gap' = gap
         ELSE /\ stack' = [Pop EXCEPT ![Depth - 1] =
                               Handler([@ EXCEPT !.cfails = 0, !.cycles = 0])]
              /\ status' = status
              /\ gap' = "fail"
    /\ UNCHANGED <<ports, function_calls, nlinks, failed, trace>>

\* Line 52 returns a controller; line 53 enters call_all_functions with it.
ConnectOk ==
    /\ Running
    /\ Top.pc = "connect"
    /\ nlinks < MaxLinks
    /\ nlinks' = nlinks + 1
    /\ stack' = SetTop([Top EXCEPT !.pc = "poll", !.epever = nlinks + 1, !.idx = 1])
    /\ trace' = Log(Event("connect", nlinks + 1, 0))
    /\ last' = Step("connect", Depth, nlinks + 1, 0)
    /\ gap' = "none"
    /\ UNCHANGED <<status, ports, function_calls, failed>>

\* ConnectFail with the construction outside the try block: the error leaves
\* the invocation as a failed port check does.
ConnectFail_escapes ==
    /\ Running
    /\ Top.pc = "connect"
    /\ Top.cfails < MaxFails
    /\ last' = Step("connect_error", Depth, 0, 0)
    /\ gap' = "fail"
    /\ IF Depth = 1
         THEN stack' = <<>> /\ status' = "crashed"
         ELSE /\ stack' = [Pop EXCEPT ![Depth - 1] = Handler(@)]
              /\ status' = status
    /\ UNCHANGED <<ports, function_calls, nlinks, failed, trace>>

\* ConnectFail with a retry limit: the second failure in a row ends the process.
ConnectFail_limited ==
    /\ Running
    /\ Top.pc = "connect"
    /\ Top.cfails < MaxFails
    /\ last' = Step("connect_error", Depth, 0, 0)
    /\ gap' = "fail"
    /\ IF Top.cfails >= 1
         THEN stack' = <<>> /\ status' = "crashed"
         ELSE /\ stack' = SetTop(Handler([Top EXCEPT !.cfails = @ + 1]))
              /\ status' = status
    /\ UNCHANGED <<ports, function_calls, nlinks, failed, trace>>

\* Line 52 raises: caught at line 55 by the same invocation.
ConnectFail ==
    /\ Running
    /\ Top.pc = "connect"
    /\ Top.cfails < MaxFails
    /\ stack' = SetTop(Handler([Top EXCEPT !.cfails = @ + 1]))
    /\ last' = Step("connect_error", Depth, 0, 0)
    /\ gap' = "fail"
    /\ UNCHANGED <<status, ports, function_calls, nlinks, failed, trace>>

\* Line 58 ends: back to the top of `while True`.
Sleep ==
    /\ Running
    /\ Top.pc = "sleep"
    /\ stack' = SetTop([Top EXCEPT !.pc = "validate", !.checked = FALSE,
                                   !.cycles = IF Top.cfails > 0 THEN @ + 1 ELSE @])
    /\ last' = Step("sleep", Depth, 0, 0)
    /\ gap' = "slept"
    /\ UNCHANGED <<status, ports, function_calls, nlinks, failed, trace>>

\* The entry the running pass is at has a truthy func (line 125).
AtRead ==
    /\ Running
    /\ Top.pc = "poll"
    /\ Top.idx \in Positions
    /\ function_calls[Top.idx]

\* ReadOk without `success = True`: the value is logged and the same entry is
\* read again.
ReadOk_stays ==
    /\ AtRead
    /\ trace' = Log(Event("ok", Top.epever, Top.idx))
    /\ last' = Step("read", Depth, Top.epever, Top.idx)
    /\ UNCHANGED <<stack, status, ports, function_calls, nlinks, failed, gap>>

\* ReadOk on a catalog that is consumed as it is read: the entry just read is
\* taken out of function_calls.
ReadOk_consumes ==
    /\ AtRead
    /\ stack' = SetTop([Top EXCEPT !.idx = @ + 1])
    /\ function_calls' = [function_calls EXCEPT ![Top.idx] = FALSE]
    /\ trace' = Log(Event("ok", Top.epever, Top.idx))
    /\ last' = Step("read", Depth, Top.epever, Top.idx)
    /\ UNCHANGED <<status, ports, nlinks, failed, gap>>

\* Lines 127-129: func() returns, the value is logged, success = True, and the
\* for loop moves to the next entry.
ReadOk ==
    /\ AtRead
    /\ stack' = SetTop([Top EXCEPT !.idx = @ + 1])
    /\ trace' = Log(Event("ok", Top.epever, Top.idx))
    /\ last' = Step("read", Depth, Top.epever, Top.idx)
    /\ UNCHANGED <<status, ports, function_calls, nlinks, failed, gap>>

\* ReadFail without the handler of lines 130-132: the error leaves the pass and
\* is caught at line 55 by the invocation that started the pass.
ReadFail_propagates ==
    /\ AtRead
    /\ stack' = SetTop(Handler(Top))
    /\ failed' = failed \cup {Top.epever}
    /\ trace' = Log(Event("error", Top.epever, Top.idx))
    /\ last' = Step("read_error", Depth, Top.epever, Top.idx)
    /\ gap' = "fail"
    /\ UNCHANGED <<status, ports, function_calls, nlinks>>

\* ReadFail with the error swallowed: it is logged and the for loop goes on to
\* the next entry.
ReadFail_advances ==
    /\ AtRead
    /\ stack' = SetTop([Top EXCEPT !.idx = @ + 1])
    /\ failed' = failed \cup {Top.epever}
    /\ trace' = Log(Event("error", Top.epever, Top.idx))
    /\ last' = Step("read_error", Depth, Top.epever, Top.idx)
    /\ gap' = "fail"
    /\ UNCHANGED <<status, ports, function_calls, nlinks>>

\* Lines 130-132: func() raises, the error is logged, and reconnect_and_execute
\* is called from inside the handler.  The pass stays on the stack with its
\* controller and its position; success is still False.
ReadFail ==
    /\ AtRead
    /\ stack' = Append(stack, NewFrame)
    /\ failed' = failed \cup {Top.epever}
    /\ trace' = Log(Event("error", Top.epever, Top.idx))
    /\ last' = Step("read_error", Depth, Top.epever, Top.idx)
    /\ gap' = "fail"
    /\ UNCHANGED <<status, ports, function_calls, nlinks>>

\* Lines 133-134: func is falsy.  The message is logged; success is not set, so
\* `while not success` tests the same entry again.
Unavailable ==
    /\ Running
    /\ Top.pc = "poll"
    /\ Top.idx \in Positions
    /\ ~ function_calls[Top.idx]
    /\ trace' = Log(Event("unavailable", Top.epever, Top.idx))
    /\ last' = Step("unavailable", Depth, Top.epever, Top.idx)
    /\ UNCHANGED <<stack, status, ports, function_calls, nlinks, failed, gap>>

\* PassReturn through every caller: when a pass completes, the suspended
\* passes below give up their entries and return too.
PassReturn_unwinds ==
    /\ Running
    /\ Top.pc = "poll"
    /\ Top.idx = CatalogLen + 1
    /\ stack' = <<>>
    /\ status' = "done"
    /\ last' = Step("return", 1, stack[1].epever, 0)
    /\ UNCHANGED <<ports, function_calls, nlinks, failed, trace, gap>>

\* PassReturn without the `return` of line 54: `while True` goes round again.
PassReturn_loops ==
    /\ Running
    /\ Top.pc = "poll"
    /\ Top.idx = CatalogLen + 1
    /\ stack' = SetTop([Top EXCEPT !.pc = "validate", !.idx = 0, !.checked = FALSE])
    /\ last' = Step("return", Depth, Top.epever, 0)
    /\ UNCHANGED <<status, ports, function_calls, nlinks, failed, trace, gap>>

\* The for loop is exhausted: call_all_functions returns and line 54 returns
\* from reconnect_and_execute.  The caller is main (the process ends normally)
\* or the except handler of a suspended pass, whose `while not success` then
\* calls its own func again.
PassReturn ==
    /\ Running
    /\ Top.pc = "poll"
    /\ Top.idx = CatalogLen + 1
    /\ stack' = Pop
    /\ status' = IF Depth = 1 THEN "done" ELSE status
    /\ last' = Step("return", Depth, Top.epever, 0)
    /\ UNCHANGED <<ports, function_calls, nlinks, failed, trace, gap>>

\* Interrupt with a bare `except:` at line 55: the handler of the running
\* invocation takes the interrupt for a failure.
Interrupt_swallowed ==
    /\ Running
    /\ stack' = SetTop(Handler(Top))
    /\ last' = Step("interrupt", Depth, 0, 0)
    /\ gap' = "fail"
    /\ UNCHANGED <<status, ports, function_calls, nlinks, failed, trace>>

\* KeyboardInterrupt is no Exception: neither handler catches it, every frame
\* is unwound, and lines 144-146 log the notice and call sys.exit(0).
Interrupt ==
    /\ Running
    /\ stack' = <<>>
    /\ status' = "interrupted"
    /\ last' = Step("interrupt", Depth, 0, 0)
    /\ UNCHANGED <<ports, function_calls, nlinks, failed, trace, gap>>

\* A serial device is plugged in or removed while the program runs.
PortChange ==
    /\ Running
    /\ \E p \in Ports :
         ports' = IF p \in ports THEN ports \ {p} ELSE ports \cup {p}
    /\ UNCHANGED <<stack, status, function_calls, nlinks, failed, trace, last, gap>>

Next ==
    \/ ValidateOk
    \/ ValidateFail
    \/ ConnectOk
    \/ ConnectFail
    \/ Sleep
    \/ ReadOk
    \/ ReadFail
    \/ Unavailable
    \/ PassReturn
    \/ Interrupt
    \/ PortChange

Spec == Init /\ [][Next]_vars

\* ---- the program on a port that stays listed, with every func bound and no
\* ---- interrupt: each step of the single thread is taken in the end.

LiveInit ==
    /\ Init
    /\ com_port \in ports
    /\ \A p \in Positions : function_calls[p]

\* A read fails only while a controller can still be constructed for the
\* reconnect it starts.
LiveReadFail ==
    /\ nlinks < MaxLinks
    /\ ReadFail

LiveNext ==
    \/ ValidateOk
    \/ ConnectOk
    \/ ConnectFail
    \/ Sleep
    \/ ReadOk
    \/ LiveReadFail
    \/ PassReturn

LiveSpec == LiveInit /\ [][LiveNext]_vars /\ WF_vars(LiveNext)

\* ---- vocabulary of the properties ----

IsRead(e) == e.ev \in {"ok", "error"}
Frames == DOMAIN stack
\* Controllers held by a pass, running or suspended, that can still read from them.
Live == {stack[i].epever : i \in {j \in Frames : stack[j].pc = "poll"}}

\* C1: after the read of entry i fails, the next thing reported follows a
\* successful construction, and a pass never resumes in mid-catalog: a read of
\* entry 1 directly follows the construction of its controller, and a read of
\* entry j > 1 directly follows the success (or the skip) of entry j - 1 on the
\* same controller.
C1_RestartFromFirst ==
    \A b \in 1..Len(trace) :
        /\ (b > 1 /\ trace[b - 1].ev = "error") => trace[b].ev = "connect"
        /\ IsRead(trace[b]) =>
              /\ b > 1
              /\ trace[b - 1].link = trace[b].link
              /\ IF trace[b].pos = 1
                   THEN trace[b - 1].ev = "connect"
                   ELSE /\ trace[b - 1].ev \in {"ok", "unavailable"}
                        /\ trace[b - 1].pos = trace[b].pos - 1

\* C2: once a read on a controller has failed, no read is issued on it again;
\* every later read goes to a controller constructed after that failure.
C2_NoReadOnFailedLink ==
    \A a \in 1..Len(trace) : \A b \in 1..Len(trace) :
        (a < b /\ trace[a].ev = "error" /\ IsRead(trace[b])) =>
            /\ trace[b].link # trace[a].link
            /\ \E c \in (a + 1)..(b - 1) :
                   trace[c].ev = "connect" /\ trace[c].link = trace[b].link

\* C3: at most one controller is live: none is constructed while a pass that
\* may read again still holds an earlier one.
C3_OneLiveLink == Cardinality(Live) <= 1

\* C4: an invocation is at or past the construction of its current iteration
\* only if the port check of that iteration found the port listed; and a check
\* that finds the port missing reports PortUnavailable and ends the invocation
\* with nothing constructed.
C4_ConnectOnlyAfterCheck ==
    /\ [](/\ \A i \in Frames : stack[i].pc # "validate" => stack[i].checked
          /\ last.act \in {"connect", "connect_error"} => stack[last.depth].checked)
    /\ [][(Running /\ Top.pc = "validate" /\ com_port \notin ports /\ last' # last) =>
              /\ last'.act \in {"PortUnavailable", "interrupt"}
              /\ nlinks' = nlinks
              /\ Len(stack') < Len(stack)]_vars

\* C4 happens: a construction is about to be attempted on a retry.
C4_Witness ==
    /\ Running
    /\ Top.pc = "connect"
    /\ Top.cycles >= 1
    /\ com_port \in ports

C6_BackoffBeforeAttempt ==
    [][(last' # last /\ last'.act \in {"connect", "connect_error"}) => gap # "fail"]_vars

\* The trace of the scenario of C7: the first controller reads entries 1..i-1,
\* fails at entry i, and the second controller reads every entry.
Oks(link, n) == [j \in 1..n |-> Event("ok", link, j)]
Expected(i) ==
    <<Event("connect", 1, 0)>> \o Oks(1, i - 1) \o
    <<Event("error", 1, i), Event("connect", 2, 0)>> \o Oks(2, CatalogLen)
IsPrefix(s, t) == Len(s) <= Len(t) /\ SubSeq(t, 1, Len(s)) = s

\* C7: once the trace is that of one failure at entry i and a full pass on the
\* second controller, nothing more is reported, and the return of that pass
\* ends the program.
C7_NothingAfterFullPass ==
    \A i \in Positions :
        IsPrefix(Expected(i), trace) =>
            /\ trace = Expected(i)
            /\ last.act = "return" => status = "done"

C9_RetryCycles ==
    /\ \A i \in Frames :
          /\ stack[i].pc # "sleep" => stack[i].cycles = stack[i].cfails
          /\ (stack[i].pc = "sleep" /\ stack[i].cfails > 0) =>
                 stack[i].cycles = stack[i].cfails - 1
    /\ last.act = "connect_error" =>
          (status = "running" /\ Depth = last.depth /\ Top.pc = "sleep")
    /\ last.act = "connect" =>
          /\ Depth = last.depth
          /\ Top.pc = "poll" /\ Top.idx = 1
          /\ Top.epever = nlinks /\ Top.epever \notin failed

\* C9 happens: the third attempt has succeeded after two failures.
C9_Witness ==
    /\ last.act = "connect"
    /\ Top.cfails = 2
    /\ Top.cycles = 2

\* C10 as stated, its last clause: the program stops only by a completed pass
\* or by being killed.
C10_StopsOnlyOnSuccessOrKill ==
    status # "running" => status \in {"done", "interrupted"}

\* C10 amended: a construction failure leaves its invocation in the sleep and
\* the sleep leads to the port check; a read failure starts an invocation at
\* its port check; and the program stops only by the return of the outermost
\* pass, by an interrupt, or by a failed port check of the outermost invocation.
C10_FailuresAreRetried ==
    /\ last.act = "connect_error" => (status = "running" /\ Top.pc = "sleep")
    /\ last.act = "sleep" => (status = "running" /\ Top.pc = "validate")
    /\ last.act = "read_error" =>
          (status = "running" /\ Depth = last.depth + 1 /\ Top.pc = "validate")
    /\ status # "running" =>
          /\ last.act \in {"return", "interrupt", "PortUnavailable"}
          /\ last.act \in {"return", "PortUnavailable"} => last.depth = 1
    /\ status = "done" <=> (last.act = "return" /\ last.depth = 1)
    /\ status = "crashed" <=> (last.act = "PortUnavailable" /\ last.depth = 1)

\* C10 happens: the port check is reached again after a read failure and
\* MaxFails construction failures.
C10_Witness ==
    /\ Running
    /\ Top.pc = "validate"
    /\ Top.cfails = MaxFails
    /\ failed # {}

\* C11: an invocation whose pass has read every entry takes one more step, its
\* return: the invocation leaves the stack with nothing validated, constructed,
\* slept or read by it, the frames below are untouched, and the program is
\* done if it was the outermost one.
C11_ReturnsAtOnce ==
    /\ [](last.act = "return" =>
            /\ Depth = last.depth - 1
            /\ (last.depth = 1) => status = "done"
            /\ (last.depth > 1) =>
                  (status = "running" /\ Top.pc = "poll" /\ Top.idx \in Positions))
    /\ [][(Running /\ Top.pc = "poll" /\ Top.idx = CatalogLen + 1 /\ last' # last) =>
              /\ last'.act \in {"return", "interrupt"}
              /\ nlinks' = nlinks /\ trace' = trace /\ gap' = gap
              /\ last'.act = "return" => stack' = SubSeq(stack, 1, Depth - 1)]_vars

\* C11 happens: a nested invocation has returned after its full pass.
C11_Witness ==
    /\ last.act = "return"
    /\ last.depth = 2
    /\ \A p \in Positions : \E a \in 1..Len(trace) : trace[a] = Event("ok", last.link, p)

\* C12: while the program runs an interrupt can always arrive; it unwinds every
\* invocation and ends the process with status 0 after the exit notice, and
\* nothing (no check, construction, sleep or read) happens after it.
C12_InterruptEndsCleanly ==
    /\ [](Running => ENABLED Interrupt)
    /\ [](last.act = "interrupt" <=> status = "interrupted")
    /\ [](status = "interrupted" => (stack = <<>> /\ exit_code(status) = 0))
    /\ [][status = "interrupted" => UNCHANGED vars]_vars

\* C12 happens: the interrupt arrived at nesting depth 3.
C12_Witness ==
    /\ status = "interrupted"
    /\ last.depth = 3

\* The entries a controller has reported with a value, in the order of the log.
Reported(link) ==
    LET OnLink(e) == e.ev = "ok" /\ e.link = link
        oks == SelectSeq(trace, OnLink)
    IN  [k \in 1..Len(oks) |-> oks[k].pos]
Labels == [k \in Positions |-> k]
Completed == {l \in 1..nlinks : Len(Reported(l)) = CatalogLen}

\* C13: no step changes the catalog, every controller reports the entries in
\* catalog order from the first, and so any two completed passes report the
\* same labels in the same order.
C13_SameLabelsEveryPass ==
    /\ [][function_calls' = function_calls]_vars
    /\ [](\A l \in 1..nlinks :
             \A k \in 1..Len(Reported(l)) : Reported(l)[k] = k)
    /\ [](\A l1 \in Completed : \A l2 \in Completed :
             Reported(l1) = Reported(l2) /\ Reported(l1) = Labels)

\* C13 happens: two passes are complete, one of them resumed after a reconnect.
C13_Witness ==
    /\ Cardinality(Completed) = 2
    /\ failed # {}

\* Entry p was reported with a value, or as not available, on a controller
\* among the first n events of the log.
Passed(link, p, n) ==
    \E a \in 1..n :
        /\ trace[a].link = link /\ trace[a].pos = p
        /\ trace[a].ev \in {"ok", "unavailable"}

\* C14: a read of entry j on a controller comes after every entry before j has
\* been reported or skipped on that controller; a pass, running or suspended,
\* is never past an entry that was not read with success on its controller;
\* and only the innermost pass moves, one entry at a time.
C14_SequentialInOrder ==
    /\ [](\A b \in 1..Len(trace) :
             trace[b].ev \in {"ok", "error", "unavailable"} =>
                 \A p \in 1..(trace[b].pos - 1) : Passed(trace[b].link, p, b - 1))
    /\ [](Len(trace) < MaxTrace =>
             \A i \in Frames : stack[i].pc = "poll" =>
                 \A p \in 1..(stack[i].idx - 1) :
                     \E a \in 1..Len(trace) : trace[a] = Event("ok", stack[i].epever, p))
    /\ [][\A i \in Frames :
             (i <= Len(stack') /\ stack[i].pc = "poll" /\ stack'[i].pc = "poll"
              /\ stack'[i].epever = stack[i].epever /\ stack'[i].idx # stack[i].idx) =>
                 (i = Depth /\ stack'[i].idx = stack[i].idx + 1)]_vars

\* C14 happens: a resumed pass reads entry 2 on the controller that failed.
C14_Witness ==
    /\ last.act = "read"
    /\ last.pos = 2
    /\ last.link \in failed
    /\ last.depth = 1
    /\ nlinks = 2

\* C15: on a port that stays listed, with every func bound, if from some point
\* on no construction and no read fails, the program finishes: every
\* invocation and every suspended pass has returned.
C15_TerminatesOnceLinkRecovers ==
    <>[][~ (ReadFail \/ ConnectFail)]_vars => <>(status = "done" /\ stack = <<>>)

\* C15 happens: the program has finished after a read failure and a reconnect.
C15_Witness ==
    /\ status = "done"
    /\ failed # {}
    /\ nlinks = MaxLinks

\* C16: the program is done only by the return of the outermost invocation,
\* and then (while the log is not full) the controller of its last iteration
\* has reported every entry in order, every label has a value in the log, and
\* the last line of the log is the value of the last entry on that controller.
C16_DoneAfterFullPass ==
    status = "done" =>
        /\ last.act = "return" /\ last.depth = 1 /\ last.link \in 1..nlinks
        /\ Len(trace) < MaxTrace =>
              /\ Reported(last.link) = Labels
              /\ \A p \in Positions : \E a \in 1..Len(trace) :
                     trace[a].ev = "ok" /\ trace[a].pos = p
              /\ trace[Len(trace)] = Event("ok", last.link, CatalogLen)

\* C16 happens: the program is done after its first pass failed, was suspended
\* and was resumed, with the whole log kept.
C16_Witness ==
    /\ status = "done"
    /\ Len(trace) < MaxTrace
    /\ last.link \in failed

\* C17: when the port check of a nested invocation fails, the step ends that
\* invocation and puts the one below, whose pass was suspended, into the sleep
\* of its handler with the pass dropped; the invocations further down are
\* untouched and the process goes on.  The sleep leads to the port check of
\* the same invocation.  The process crashes only by the failed check of the
\* outermost invocation.
C17_NestedPortFailureIsCaught ==
    /\ [][(Running /\ Depth >= 2 /\ Top.pc = "validate"
           /\ last' # last /\ last'.act = "PortUnavailable") =>
              /\ status' = "running"
              /\ Len(stack') = Depth - 1
              /\ SubSeq(stack', 1, Depth - 2) = SubSeq(stack, 1, Depth - 2)
              /\ stack[Depth - 1].pc = "poll"
              /\ stack'[Depth - 1].pc = "sleep"
              /\ stack'[Depth - 1].idx = 0
              /\ trace' = trace /\ nlinks' = nlinks]_vars
    /\ [][(Running /\ Top.pc = "sleep" /\ last' # last /\ last'.act # "interrupt") =>
              /\ last'.act = "sleep"
              /\ Len(stack') = Depth
              /\ stack'[Depth].pc = "validate"]_vars
    /\ [][(status = "running" /\ status' = "crashed") =>
              (Depth = 1 /\ Top.pc = "validate" /\ com_port \notin ports)]_vars

\* C17 happens: the outermost invocation, its pass dropped after the failed
\* check of the nested one, has slept and is at its port check again.
C17_Witness ==
    /\ Running
    /\ Depth = 1
    /\ Top.pc = "validate"
    /\ last.act = "sleep"
    /\ Top.epever \in failed
    /\ Top.cfails = 0

\* The controllers of the suspended passes.
SuspendedLinks == {stack[i].epever : i \in 1..(Depth - 1)}

\* C18: a read failure puts a new invocation, at its port check, on top of the
\* stack and leaves the pass that failed, and everything below it, as it was;
\* every invocation but the innermost is a suspended pass at a bound entry of
\* a controller that has failed, the n suspended passes hold n different
\* controllers, opened in the order of the nesting, and so n + 1 invocations
\* are active at once.
C18_FailuresNest ==
    /\ [][(last' # last /\ last'.act = "read_error") =>
              /\ Len(stack') = Depth + 1
              /\ SubSeq(stack', 1, Depth) = stack
              /\ stack'[Depth + 1].pc = "validate"
              /\ stack[Depth].epever = last'.link /\ stack[Depth].idx = last'.pos]_vars
    /\ [](\A i \in 1..(Depth - 1) :
             /\ stack[i].pc = "poll"
             /\ stack[i].idx \in Positions /\ function_calls[stack[i].idx]
             /\ stack[i].epever \in failed
             /\ \A j \in 1..(Depth - 1) : i < j => stack[i].epever < stack[j].epever)
    /\ [](Running => Depth = Cardinality(SuspendedLinks) + 1)

\* C18 happens: every controller the bound allows has failed in turn and
\* MaxLinks + 1 invocations are active.
C18_Witness ==
    /\ Running
    /\ Depth = MaxLinks + 1
    /\ SuspendedLinks = 1..MaxLinks
    /\ Cardinality(failed) = MaxLinks

====
